---- MODULE Spec2Model ----
(***************************************************************************)
(* Model of the wytros raw codec (wytros/src/lib.rs): the reverse-indexed  *)
(* 16-byte bit group, the block/chunk layout of a 0x4000-byte block, the   *)
(* 14-pixel chunk decoder and encoder, and the top-level decode.           *)
(*                                                                         *)
(* Arrays are functions over 0..n-1, as the source indexes them.  u8 and   *)
(* u16 values are naturals kept in range with explicit wrap-around.        *)
(***************************************************************************)
EXTENDS Integers, Sequences, FiniteSets, TLC

VARIABLES
    overflow_checks,  \* TRUE in a build that traps integer overflow (dev, test),
                      \* FALSE in one that wraps (release)
    self,             \* the ReverseBits value under study
    blob,             \* the byte blob under study, by its description
    stages,           \* the chunk codec's values so far: bytes and pixels in turn
    call              \* the last call made and what it returned

vars == <<overflow_checks, self, blob, stages, call>>

----------------------------------------------------------------------------
(* Fixed-width integer helpers.                                            *)

U8 == 256

U16 == 65536

Pow2(n) == 2 ^ n

\* Whether x << n on u16 overflows, the shift amount being 16 or more: it
\* aborts a build with overflow checks.
shl_overflows(n) == n >= 16

\* x << n on u16: bits shifted out of the 16-bit word are lost, and a build
\* without overflow checks shifts by n mod 16.
Shl16(x, n) == (x * Pow2(n % 16)) % U16

\* x >> n on an unsigned value.
Shr(x, n) == x \div Pow2(n)

\* !x on u16.
Not16(x) == (U16 - 1) - x

RECURSIVE BitAndRec(_, _, _)
BitAndRec(x, y, n) ==
    IF n = 0 THEN 0
    ELSE ((x % 2) * (y % 2)) + 2 * BitAndRec(x \div 2, y \div 2, n - 1)

\* x & y for two 4-bit values, tabulated.
And4 == [x \in 0 .. 15 |-> [y \in 0 .. 15 |-> BitAndRec(x, y, 4)]]

\* x & y on u8.
And8(x, y) ==
    And4[x % 16][y % 16] + 16 * And4[(x \div 16) % 16][(y \div 16) % 16]

\* x & y on u16.
And16(x, y) == And8(x % U8, y % U8) + U8 * And8(x \div U8, y \div U8)

\* x | y on u16, by De Morgan.
Or16(x, y) == Not16(And16(Not16(x), Not16(y)))

\* x | y on u32, from its two 16-bit halves.
Or32(x, y) == Or16(x \div U16, y \div U16) * U16 + Or16(x % U16, y % U16)

\* 2^32 and, usize having 64 bits, 2^64.
U32 == U16 * U16

USize == U32 * U32

\* Whether the natural number x is outside u32: the result of a u32 operation
\* that aborts a build with overflow checks.
OutOfU32(x) == x \div U16 >= U16

\* The u32 that a u32 operation with the exact result x >= 0 wraps to, and
\* x as u32 for a usize x.
WrapU32(x) == IF OutOfU32(x) THEN x % U32 ELSE x

\* Byte k of the natural number x.
ByteOf(x, k) == (x \div Pow2(8 * k)) % U8

\* Column k of the long multiplication of a and b, two u32, by bytes: the
\* products of byte i of a and byte k - i of b, and the carry of column k - 1.
mul_columns(a, b) ==
    LET col(k) ==
            LET P[i \in 0 .. 4] ==
                    IF i = 0 THEN 0
                    ELSE P[i - 1] + (IF k - (i - 1) \in 0 .. 3
                                     THEN ByteOf(a, i - 1) * ByteOf(b, k - (i - 1))
                                     ELSE 0)
            IN  P[4]
        acc[k \in 0 .. 7] == IF k = 0 THEN col(0) ELSE col(k) + acc[k - 1] \div U8
    IN  acc

\* Whether a * b on u32 overflows, the product having a bit above the 32nd:
\* it aborts a build with overflow checks.
mul_overflows(a, b) == \E k \in 4 .. 7 : mul_columns(a, b)[k] # 0

\* a * b on u32 in a build without overflow checks: the low four bytes of
\* the product.
MulU32(a, b) ==
    LET acc == mul_columns(a, b)
    IN  (acc[0] % U8) + U8 * (acc[1] % U8)
            + U16 * ((acc[2] % U8) + U8 * (acc[3] % U8))

\* x as u8.
AsU8(x) == x % U8

----------------------------------------------------------------------------
(* ReverseBits: a 16-byte group addressed by a reverse bit index.          *)

GroupBytes == 16

GroupBits == GroupBytes * 8

\* self.0.get(idx).unwrap_or(&0)
GetOrZero(b, idx) == IF idx \in DOMAIN b THEN b[idx] ELSE 0

\* What a call that panics yields.
Panic == <<"panic">>

\* Whether 16*8 - bit_index - count overflows, going below zero: the usize
\* subtraction aborts a build with overflow checks.
get_internal_overflows(bit_index, count) == GroupBits - bit_index - count < 0

\* The local bit_index of get_internal in a build without overflow checks:
\* the usize difference, wrapped round when it is below zero.
reversed_index(bit_index, count) ==
    LET bi == GroupBits - bit_index - count
    IN  IF bi >= 0 THEN bi ELSE bi % USize

\* Whether get_internal panics on self.0[byte_index], in either build: the
\* index is 128 and self.0[16] is read, or the difference went below zero
\* and wrapped round to an index past the group.  It wraps to an index
\* inside the group when 2^64 added to it is at most 127, which no
\* difference above -2^32 does.
get_internal_panics(bit_index, count) ==
    LET bi == GroupBits - bit_index - count
    IN  IF bi >= 0 THEN bi \div 8 >= GroupBytes
        ELSE ~((-bi) \div U16 >= U16 /\ bi % USize < GroupBits)

\* What get_internal returns when it panics: nothing, the three values 0.
NoRead == [panic |-> TRUE, data |-> 0, byte_index |-> 0, bit_offset |-> 0]

\* get_internal reading the byte at byte_index alone: a field that runs into
\* the next byte loses its upper bits.
get_internal_single(b, bit_index, count) ==
    LET bi == reversed_index(bit_index, count)
    IN  IF get_internal_panics(bit_index, count) THEN NoRead
        ELSE [panic |-> FALSE, data |-> b[bi \div 8],
              byte_index |-> bi \div 8, bit_offset |-> bi % 8]

\* The tuple of get_internal for the local bit_index bi: the two bytes at
\* byte_index as a u16, byte_index and bit_offset.
read_at(b, bi) ==
    [panic |-> FALSE,
     data |-> Or16(Shl16(GetOrZero(b, bi \div 8 + 1), 8), b[bi \div 8]),
     byte_index |-> bi \div 8, bit_offset |-> bi % 8]

\* get_internal as a build without overflow checks computes it.
get_internal(b, bit_index, count) ==
    IF get_internal_panics(bit_index, count) THEN NoRead
    ELSE read_at(b, reversed_index(bit_index, count))

\* Whether get overflows, in get_internal or in !0u16 << count: it aborts a
\* build with overflow checks.
get_overflows(bit_index, count) ==
    get_internal_overflows(bit_index, count) \/ shl_overflows(count)

\* (data >> bit_offset) as u8 & mask, for the tuple gi of get_internal.
masked_field(gi, count) ==
    IF gi.panic THEN Panic
    ELSE And8(AsU8(Shr(gi.data, gi.bit_offset)),
              AsU8(Not16(Shl16(Not16(0), count))))

\* get as a build without overflow checks computes it.
get(b, bit_index, count) ==
    masked_field(get_internal(b, bit_index, count), count)

\* set_data without the mask: the bits the field held stay set.
set_data_keep(b, bit_index, count, value) ==
    LET gi == get_internal(b, bit_index, count)
    IN  Or16(gi.data, Shl16(value, gi.bit_offset))

\* (data & !mask) | value, for the tuple gi of get_internal.
replaced_field(gi, count, value) ==
    Or16(And16(gi.data,
               Not16(Shl16(Not16(Shl16(Not16(0), count)), gi.bit_offset))),
         Shl16(value, gi.bit_offset))

\* The u16 that set writes back: the two bytes read by get_internal with the
\* field replaced by value.
set_data(b, bit_index, count, value) ==
    replaced_field(get_internal(b, bit_index, count), count, value)

\* Whether set overflows, in get_internal or in !0u16 << count: it aborts a
\* build with overflow checks.
set_overflows(bit_index, count) ==
    get_internal_overflows(bit_index, count) \/ shl_overflows(count)

\* data.to_be_bytes(): data[0] goes to byte_index + 1 when the group has such
\* a byte (get_mut yields None past the last one), data[1] to byte_index.
write_back(b, byte_index, data) ==
    IF byte_index + 1 < GroupBytes
    THEN [b EXCEPT ![byte_index + 1] = Shr(data, 8), ![byte_index] = AsU8(data)]
    ELSE [b EXCEPT ![byte_index] = AsU8(data)]

\* set as a build without overflow checks computes it.
set(b, bit_index, count, value) ==
    IF get_internal_panics(bit_index, count) THEN Panic
    ELSE write_back(b, reversed_index(bit_index, count) \div 8,
                    set_data(b, bit_index, count, value))

----------------------------------------------------------------------------
(* Arrays as functions over 0..n-1.                                        *)

\* The array holding the elements of the tuple s, in order.
Arr(s) == [i \in 0 .. Len(s) - 1 |-> s[i + 1]]

\* a[from..][..n]
Slice(a, from, n) == [i \in 0 .. n - 1 |-> a[from + i]]

\* a with a[idx] = v.
Put(a, idx, v) == [a EXCEPT ![idx] = v]

MaxOf(S) == CHOOSE x \in S : \A y \in S : y <= x

Min(a, b) == IF a < b THEN a ELSE b

\* i16::MIN
MinI16 == -(U16 \div 2)

\* Whether x.abs() on i16 overflows: it aborts a build with overflow checks.
abs_overflows(x) == x = MinI16

\* x.abs() on i16: i16::MIN has no absolute value in i16 and comes back as
\* it is from a build without overflow checks.
Abs(x) == IF x = MinI16 THEN x ELSE IF x < 0 THEN -x ELSE x

\* x as i16, from a u16.
AsI16(x) == IF x >= U16 \div 2 THEN x - U16 ELSE x

\* x as u16, from an i16.
AsU16(x) == x % U16

\* Whether x is outside i16: the result of an i16 operation that aborts a
\* build with overflow checks.
OutOfI16(x) == x < MinI16 \/ x >= U16 \div 2

\* The i16 that an i16 operation with the exact result x wraps to.
WrapI16(x) == AsI16(x % U16)

----------------------------------------------------------------------------
(* ChunkCodec: decode.                                                     *)

PixelsPerChunk == 14

\* 0x80 << shift
Magnitude(shift) == Shl16(128, shift)

\* prev - magnitude + (j << shift) before it is stored in a u16: a result
\* of 2^16 or more aborts a build with overflow checks and wraps otherwise.
delta_sum(j, shift, prev) == prev - Magnitude(shift) + Shl16(j, shift)

\* Whether the call takes the delta branch of decode_j.
in_delta_branch(j, shift, prev) ==
    j # 0 /\ ~(Magnitude(shift) > prev \/ shift = 4)

decode_j_overflows(j, shift, prev) ==
    \/ shl_overflows(shift)
    \/ in_delta_branch(j, shift, prev) /\ delta_sum(j, shift, prev) >= U16

\* decode_j taking the delta branch whatever prev is: the sum goes below zero
\* when prev is less than the magnitude.
decode_j_unguarded(j, shift, prev) ==
    IF j # 0
    THEN IF shift = 4
         THEN Or16(Shl16(j, shift), And16(prev, Not16(Shl16(Not16(0), shift))))
         ELSE delta_sum(j, shift, prev) % U16
    ELSE prev

decode_j(j, shift, prev) ==
    IF j # 0
    THEN IF Magnitude(shift) > prev \/ shift = 4
         THEN Or16(Shl16(j, shift), And16(prev, Not16(Shl16(Not16(0), shift))))
         ELSE delta_sum(j, shift, prev) % U16
    ELSE prev

\* Bit index of the 2-bit shift field of differential group diffidx.
ShiftField(diffidx) == 24 + diffidx * (2 + 3 * 8)

\* Bit index of the 8-bit code of pixel pxidx of group diffidx.
CodeField(diffidx, pxidx) == 24 + 2 + diffidx * (2 + 3 * 8) + pxidx * 8

\* 4 >> (3 - shift)
ShiftOfRaw(raw) == Shr(4, 3 - raw)

RECURSIVE decode_pixels(_, _, _)
\* The loop body of decode_chunk for px_allidx = n .. 13, in order.  st holds
\* the pixels so far and whether a decode_j sum overflowed.
decode_pixels(b, st, n) ==
    IF n >= PixelsPerChunk THEN st
    ELSE LET diffidx == (n - 2) \div 3
             pxidx == (n - 2) % 3
             shift == ShiftOfRaw(get(b, ShiftField(diffidx), 2))
             prev == st.out[n - 2]
             j == get(b, CodeField(diffidx, pxidx), 8)
         IN  decode_pixels(b,
                 [out |-> Put(st.out, n, decode_j(j, shift, prev)),
                  overflow |-> st.overflow \/ decode_j_overflows(j, shift, prev)],
                 n + 1)

\* decode_chunk, with whether one of its decode_j sums overflowed.
decode_run(b) ==
    LET zero == [i \in 0 .. PixelsPerChunk - 1 |-> 0]
        o0 == Put(zero, 0, Or16(Shl16(get(b, 0, 8), 4), get(b, 8, 4)))
        o1 == Put(o0, 1, Or16(Shl16(get(b, 12, 8), 4), get(b, 20, 4)))
    IN  decode_pixels(b, [out |-> o1, overflow |-> FALSE], 2)

decode_chunk(b) == decode_run(b).out

\* Whether some decode_j call of decode_chunk(b) overflows its u16 sum.
decode_chunk_overflows(b) == decode_run(b).overflow

----------------------------------------------------------------------------
(* ChunkCodec: encode.                                                     *)

RECURSIVE next_power_of_two_from(_, _)
next_power_of_two_from(x, p) ==
    IF p >= x THEN p ELSE next_power_of_two_from(x, 2 * p)

\* Whether x.next_power_of_two() on u16 overflows: it aborts a build with
\* overflow checks.
next_power_of_two_overflows(x) == next_power_of_two_from(x, 1) >= U16

\* x.next_power_of_two() on u16: 0 when the power is 2^16, in a build
\* without overflow checks.
next_power_of_two(x) == next_power_of_two_from(x, 1) % U16

\* The candidate shifts tried in the order 0, 1, 2: the smallest shift whose
\* 8-bit code covers maxpx.
px_shift_smallest(maxpx) ==
    IF Shl16(255, 0) > maxpx THEN 0
    ELSE IF Shl16(255, 1) > maxpx THEN 1
    ELSE IF Shl16(255, 2) > maxpx THEN 2
    ELSE 4

\* [2, 1, 0].into_iter().filter(|shift| (0xff << shift) > maxpx).next().unwrap_or(4)
px_shift_of(maxpx) ==
    IF Shl16(255, 2) > maxpx THEN 2
    ELSE IF Shl16(255, 1) > maxpx THEN 1
    ELSE IF Shl16(255, 0) > maxpx THEN 0
    ELSE 4

\* match diff_magnitude >> 8 { 0 => 0, 1 => 1, 2 => 2, _ => 4 }
diff_shift_of(diff_magnitude) ==
    LET m == Shr(diff_magnitude, 8)
    IN  IF m = 0 THEN 0 ELSE IF m = 1 THEN 1 ELSE IF m = 2 THEN 2 ELSE 4

\* calculate_shift as a build without overflow checks computes it, with
\* whether one of its i16 subtractions, an abs or next_power_of_two
\* overflowed: a build with overflow checks aborts there.
calculate_shift(pxs) ==
    LET exact == [q \in 0 .. 2 |-> AsI16(pxs[q + 2]) - AsI16(pxs[q])]
        diffs == [q \in 0 .. 2 |-> WrapI16(exact[q])]
        maxdiff == MaxOf({AsU16(Abs(diffs[q])) : q \in 0 .. 2})
        maxpx == MaxOf({pxs[q] : q \in 2 .. 4})
        px_shift == px_shift_of(maxpx)
        diff_magnitude == next_power_of_two(maxdiff + 1)
        shift == diff_shift_of(diff_magnitude)
    IN  [shift |-> Min(shift, px_shift), diffs |-> diffs,
         overflow |-> \/ \E q \in 0 .. 2 : OutOfI16(exact[q])
                      \/ \E q \in 0 .. 2 : abs_overflows(diffs[q])
                      \/ next_power_of_two_overflows(maxdiff + 1)]

\* Whether diff + magnitude as i16 overflows in the delta mode of the
\* encoder: it aborts a build with overflow checks.
encode_j_overflows(prev, px, diff, shift) ==
    /\ ~(prev < Magnitude(shift) \/ shift = 4)
    /\ OutOfI16(diff + AsI16(Magnitude(shift)))

\* The code j of one pixel, as a u16 before it is cut to the 8-bit field.
encode_j(prev, px, diff, shift) ==
    IF prev < Magnitude(shift) \/ shift = 4
    THEN Shr(px, shift)
    ELSE Shr(AsU16(diff + AsI16(Magnitude(shift))), shift)

\* One pass of the inner loop of encode_chunk, for pixel q of group diffidx.
\* st holds the bit group, the reconstructed outpxs, whether something
\* overflowed so far, and for each pass so far its prev, j and shift, whether
\* something overflowed before its j was there (aborted) and whether its
\* decode_j sum overflowed.
encode_pixel(st, inpxs, cs, diffidx, q) ==
    LET prev == st.outpxs[q]
        px == inpxs[q + 2]
        j == encode_j(prev, px, cs.diffs[q], cs.shift)
        rec == decode_j(j, cs.shift, prev)
        aborted == st.overflow \/ encode_j_overflows(prev, px, cs.diffs[q], cs.shift)
        step == [prev |-> prev, j |-> j, shift |-> cs.shift,
                 aborted |-> aborted,
                 overflow |-> decode_j_overflows(j, cs.shift, prev)]
    IN  [bits |-> set(st.bits, CodeField(diffidx, q), 8, AsU8(j)),
         outpxs |-> Put(st.outpxs, q + 2, rec),
         overflow |-> aborted \/ decode_j_overflows(j, cs.shift, prev),
         steps |-> Append(st.steps, step)]

\* One pass of the outer loop of encode_chunk, for group g.
encode_group(st, pxs, g) ==
    LET inpxs == Slice(pxs, g * 3, 5)
        cs == calculate_shift(inpxs)
        s0 == [bits |-> set(st.bits, ShiftField(g), 2, Min(cs.shift, 3)),
               outpxs |-> Arr(<<inpxs[0], inpxs[1], 0, 0, 0>>),
               overflow |-> st.overflow \/ cs.overflow,
               steps |-> st.steps]
    IN  encode_pixel(encode_pixel(encode_pixel(s0, inpxs, cs, g, 0),
                                  inpxs, cs, g, 1),
                     inpxs, cs, g, 2)

\* encode_chunk with everything it computes on the way.
encode_run(pxs) ==
    LET z == [i \in 0 .. GroupBytes - 1 |-> 0]
        b1 == set(z, 0, 8, AsU8(Shr(pxs[0], 4)))
        b2 == set(b1, 8, 4, AsU8(And16(pxs[0], 15)))
        b3 == set(b2, 12, 8, AsU8(Shr(pxs[1], 4)))
        b4 == set(b3, 20, 4, AsU8(And16(pxs[1], 15)))
        s0 == [bits |-> b4, outpxs |-> <<>>, overflow |-> FALSE, steps |-> <<>>]
    IN  encode_group(encode_group(encode_group(encode_group(s0, pxs, 0),
                                               pxs, 1),
                                  pxs, 2),
                     pxs, 3)

encode_chunk(pxs) == encode_run(pxs).bits

\* Whether encode_chunk(pxs) overflows somewhere: in calculate_shift, in the
\* i16 sum of the delta mode, or in the u16 sum of a decode_j call.
encode_chunk_overflows(pxs) == encode_run(pxs).overflow

----------------------------------------------------------------------------
(* BlockLayout.  A byte slice data is given by its description, a record   *)
(* with its length data.len and the rule its bytes follow: ByteAt(data, i) *)
(* is data[i].                                                             *)

BlockSize == 16384

\* The 16-byte groups of the crate's tests (revbits, decode, reencode ..
\* reencode3), then the all-zero and the all-ones group.
Vectors ==
    << Arr(<<144, 122, 138, 24, 2, 38, 146, 199, 183, 72, 32, 31, 32, 198, 240, 11>>),
       Arr(<<102, 115, 210, 33, 34, 29, 201, 36, 210, 85, 154, 112, 122, 75, 241, 23>>),
       Arr(<<33, 22, 71, 143, 45, 9, 161, 38, 41, 108, 97, 23, 48, 175, 211, 23>>),
       Arr(<<137, 145, 122, 232, 17, 246, 49, 89, 136, 132, 95, 187, 172, 1, 144, 21>>),
       Arr(<<116, 137, 127, 176, 1, 30, 82, 88, 87, 137, 160, 107, 244, 1, 208, 17>>),
       Arr(<<0, 0, 0, 0, 0, 0, 0, 0, 0, 0, 0, 31, 32, 198, 240, 11>>),
       [i \in 0 .. 15 |-> 0],
       [i \in 0 .. 15 |-> 255] >>

\* data[i], for the kinds of blob the model draws: one byte value throughout,
\* the low or the high byte of the index, one of the Vectors in every 16-byte
\* slot that a chunk occupies, or two such blobs one after the other.
RECURSIVE ByteAt(_, _)
ByteAt(data, i) ==
    CASE data.kind = "const" -> data.a
      [] data.kind = "lo" -> i % 256
      [] data.kind = "hi" -> (i \div 256) % 256
      [] data.kind = "vec" -> Vectors[data.a][(i + 8) % 16]
      [] data.kind = "cat" -> IF i < data.a[1].len
                              THEN ByteAt(data.a[1], i)
                              ELSE ByteAt(data.a[2], i - data.a[1].len)

\* The slice holding the bytes of b1 followed by the bytes of b2.
Concat(b1, b2) == [len |-> b1.len + b2.len, kind |-> "cat", a |-> <<b1, b2>>]

\* chunk_to_offset sending chunk 512 to the second branch as well.
chunk_to_offset_ge(idx) ==
    IF idx >= 512 THEN idx * 16 - 8200 ELSE idx * 16 + 8184

chunk_to_offset(idx) ==
    IF idx > 512 THEN idx * 16 - 8200 ELSE idx * 16 + 8184

\* &data[block_idx * 0x4000..][..0x4000] needs the whole block inside data.
block_get_chunk_panics(data, chunk_idx) ==
    ((chunk_idx * 16) \div BlockSize) * BlockSize + BlockSize > data.len

\* block_get_chunk reading 16 bytes on from data_offset in every case.
block_get_chunk_straight(data, chunk_idx) ==
    LET block_idx == (chunk_idx * 16) \div BlockSize
        data_offset == chunk_to_offset(chunk_idx % (BlockSize \div 16))
    IN  [m \in 0 .. GroupBytes - 1 |->
            ByteAt(data, block_idx * BlockSize + data_offset + m)]

block_get_chunk(data, chunk_idx) ==
    LET block_idx == (chunk_idx * 16) \div BlockSize
        block == [x \in 0 .. BlockSize - 1 |-> ByteAt(data, block_idx * BlockSize + x)]
        chunks_in_block == BlockSize \div 16
        local_idx == chunk_idx % chunks_in_block
        data_offset == chunk_to_offset(local_idx)
    IN  [m \in 0 .. GroupBytes - 1 |->
            IF data_offset = 16376
            THEN IF m < 8 THEN block[data_offset + m] ELSE block[m - 8]
            ELSE block[data_offset + m]]

\* (0..(data.len() / 0x4000)).map(|i| block_get_chunk(data, i))
iter_chunks(data) ==
    [i \in 0 .. (data.len \div BlockSize) - 1 |-> block_get_chunk(data, i)]

----------------------------------------------------------------------------
(* StreamCodec: decode.                                                    *)

\* Whether the closure of decode aborts on chunk bytes c: an overflow trapped
\* by the build, or assert_eq_hex!(&data, &encode_chunk(&out)) failing.
chunk_check_panics(checks, c) ==
    LET d == decode_run(c)
    IN  \/ d.overflow /\ checks
        \/ LET e == encode_run(d.out)
           IN  (e.overflow /\ checks) \/ e.bits # c

decode(checks, data) ==
    IF data.len % BlockSize = 0
    THEN LET chunks == iter_chunks(data)
             n == data.len \div BlockSize
         IN  IF \E i \in 0 .. n - 1 : chunk_check_panics(checks, chunks[i])
             THEN [kind |-> "panic", len |-> 0, out |-> <<>>]
             ELSE [kind |-> "Ok", len |-> 0,
                   out |-> [x \in 0 .. n * PixelsPerChunk - 1 |->
                              decode_chunk(chunks[x \div PixelsPerChunk])
                                  [x % PixelsPerChunk]]]
    ELSE [kind |-> "Err", len |-> data.len, out |-> <<>>]

----------------------------------------------------------------------------
(* The inputs the model draws from.                                        *)

\* How many of the Vectors the bit-group specification starts from.
NGroups == 3

\* How many stages (inputs included) the codec specification runs.
MaxStages == 4

\* The longest blob, in whole blocks.
MaxBlocks == 2

None == [fn |-> "none"]

NoBlob == [len |-> 0, kind |-> "const", a |-> 0]

NoSelf == [i \in 0 .. 15 |-> 0]

\* The values written by the set calls explored: all zeros, all ones, and the
\* two alternating patterns, cut to count bits.
SetValues(count) ==
    {0, (Pow2(count) - 1) % U8, 85 % Pow2(count), 170 % Pow2(count)}

\* The counts of the calls: every width of a field from 0 to 8 bits, and 16,
\* where !0u16 << count overflows.
Counts == (0 .. 8) \cup {16}

\* A chunk given by its fields: the two seed pixels, and one raw shift and
\* three codes shared by its four differential groups.
ChunkOfFields(p0, p1, raw, j) ==
    LET z == [i \in 0 .. 15 |-> 0]
        h == set(set(set(set(z, 0, 8, p0 \div 16), 8, 4, p0 % 16),
                     12, 8, p1 \div 16), 20, 4, p1 % 16)
        G(b, g) == set(set(set(set(b, ShiftField(g), 2, raw),
                               CodeField(g, 0), 8, j[1]),
                           CodeField(g, 1), 8, j[2]),
                       CodeField(g, 2), 8, j[3])
    IN  G(G(G(G(h, 0), 1), 2), 3)

SeedValues == {0, 512, 4095}

CodeValues == {0, 1, 128, 255}

ChunkInputs ==
    {Vectors[k] : k \in 1 .. Len(Vectors)} \cup
    {ChunkOfFields(p0, p1, raw, j) :
        p0 \in SeedValues, p1 \in SeedValues, raw \in 0 .. 3,
        j \in CodeValues \X CodeValues \X CodeValues}

\* 14 pixels given by the first five: the last three repeat.
PixelsOfWindow(w) ==
    [i \in 0 .. PixelsPerChunk - 1 |-> IF i < 5 THEN w[i] ELSE w[2 + ((i - 2) % 3)]]

PixelValues == {0, 256, 1020, 4095}

\* A window whose third new pixel is coded with the reconstruction of the
\* first, 511, as prev while its own value is 1025.
CarryWindow == Arr(<<515, 0, 514, 0, 1025>>)

\* Windows with a pixel of 2^15 or more: the i16 subtraction, the abs and
\* next_power_of_two of calculate_shift overflow on the first, the i16 sum of
\* the delta mode on the second.
WideWindows == {Arr(<<0, 0, 32768, 0, 0>>), Arr(<<33067, 0, 0, 0, 0>>)}

PixelInputs ==
    {PixelsOfWindow(w) : w \in [0 .. 4 -> PixelValues]} \cup
    {PixelsOfWindow(CarryWindow)} \cup
    {PixelsOfWindow(w) : w \in WideWindows}

WindowValues == {0, 16, 255, 256, 512, 1019, 1020, 4095, 32768}

BlobLens == {n * BlockSize + d : n \in 0 .. MaxBlocks, d \in {0, 1, 16, BlockSize - 1}}

BlobFills ==
    {[kind |-> "const", a |-> a] : a \in {0, 85, 255}} \cup
    {[kind |-> k, a |-> 0] : k \in {"lo", "hi"}} \cup
    {[kind |-> "vec", a |-> a] : a \in 1 .. 5}

Blobs == {[len |-> n, kind |-> f.kind, a |-> f.a] : n \in BlobLens, f \in BlobFills}

----------------------------------------------------------------------------
(* ReverseBits: one get or one set on a group.                             *)

InitBits ==
    /\ overflow_checks \in BOOLEAN
    /\ self \in {Vectors[k] : k \in 1 .. NGroups}
    /\ blob = NoBlob
    /\ stages = <<>>
    /\ call = None

\* A get panics when something overflowed in a build with overflow checks,
\* and on an index outside the group in either build.
Get(bit_index, count) ==
    /\ call' = [fn |-> "get", bit_index |-> bit_index, count |-> count,
                ret |-> IF overflow_checks /\ get_overflows(bit_index, count)
                        THEN Panic
                        ELSE get(self, bit_index, count)]
    /\ UNCHANGED <<overflow_checks, self, blob, stages>>

\* A set panics as a get does, and then leaves the group as it was.
Set(bit_index, count, value) ==
    /\ call' = [fn |-> "set", bit_index |-> bit_index, count |-> count,
                value |-> value, before |-> self,
                ret |-> IF overflow_checks /\ set_overflows(bit_index, count)
                        THEN Panic
                        ELSE set(self, bit_index, count, value)]
    /\ self' = IF call'.ret = Panic THEN self ELSE call'.ret
    /\ UNCHANGED <<overflow_checks, blob, stages>>

\* The calls made: every field of 0 to 8 bits that starts in the group, those
\* that run past its end and the empty field at its start included, and the
\* same with a count of 16.
NextBits ==
    \/ /\ call.fn = "none"
       /\ \E count \in Counts : \E bit_index \in 0 .. GroupBits :
              Get(bit_index, count)
    \/ /\ call.fn = "none"
       /\ \E count \in Counts : \E bit_index \in 0 .. GroupBits :
              \E value \in SetValues(count) : Set(bit_index, count, value)

SpecBits == InitBits /\ [][NextBits]_vars

----------------------------------------------------------------------------
(* BlockLayout: one chunk_to_offset or one block_get_chunk on a blob.      *)

InitLayout ==
    /\ overflow_checks = FALSE
    /\ self = NoSelf
    /\ blob \in {b \in Blobs : b.kind \in {"lo", "hi"}}
    /\ stages = <<>>
    /\ call = None

ChunkToOffset(idx) ==
    /\ call' = [fn |-> "chunk_to_offset", idx |-> idx, ret |-> chunk_to_offset(idx)]
    /\ UNCHANGED <<overflow_checks, self, blob, stages>>

BlockGetChunk(chunk_idx) ==
    /\ call' = [fn |-> "block_get_chunk", idx |-> chunk_idx,
                ret |-> IF block_get_chunk_panics(blob, chunk_idx)
                        THEN <<"panic">>
                        ELSE block_get_chunk(blob, chunk_idx)]
    /\ UNCHANGED <<overflow_checks, self, blob, stages>>

NextLayout ==
    \/ /\ call.fn = "none"
       /\ \E idx \in 0 .. BlockSize \div 16 - 1 : ChunkToOffset(idx)
    \/ /\ call.fn = "none"
       /\ \E chunk_idx \in 0 .. blob.len \div 16 : BlockGetChunk(chunk_idx)

SpecLayout == InitLayout /\ [][NextLayout]_vars

----------------------------------------------------------------------------
(* ChunkCodec: decode_chunk and encode_chunk applied in turn.              *)

InitCodec ==
    /\ overflow_checks \in BOOLEAN
    /\ self = NoSelf
    /\ blob = NoBlob
    /\ stages \in {<<[kind |-> "chunk", val |-> c]>> : c \in ChunkInputs} \cup
                  {<<[kind |-> "pixels", val |-> p]>> : p \in PixelInputs}
    /\ call = None

Last == stages[Len(stages)]

DecodeChunk ==
    /\ Len(stages) < MaxStages
    /\ Last.kind = "chunk"
    /\ call' = [fn |-> "decode_chunk", run |-> decode_run(Last.val)]
    /\ stages' = Append(stages,
           IF overflow_checks /\ call'.run.overflow
           THEN [kind |-> "panic", val |-> <<>>]
           ELSE [kind |-> "pixels", val |-> call'.run.out])
    /\ UNCHANGED <<overflow_checks, self, blob>>

EncodeChunk ==
    /\ Len(stages) < MaxStages
    /\ Last.kind = "pixels"
    /\ call' = [fn |-> "encode_chunk", run |-> encode_run(Last.val)]
    /\ stages' = Append(stages,
           IF overflow_checks /\ call'.run.overflow
           THEN [kind |-> "panic", val |-> <<>>]
           ELSE [kind |-> "chunk", val |-> call'.run.bits])
    /\ UNCHANGED <<overflow_checks, self, blob>>

NextCodec == DecodeChunk \/ EncodeChunk

SpecCodec == InitCodec /\ [][NextCodec]_vars

----------------------------------------------------------------------------
(* calculate_shift on one window.                                          *)

InitShift ==
    /\ overflow_checks \in BOOLEAN
    /\ self = NoSelf
    /\ blob = NoBlob
    /\ stages = <<>>
    /\ call = None

\* call.ret is what a build without overflow checks computes; the call
\* panics in a build with them when something overflowed.
CalculateShift(pxs) ==
    /\ call' = [fn |-> "calculate_shift", pxs |-> pxs, ret |-> calculate_shift(pxs)]
    /\ stages' = <<IF overflow_checks /\ call'.ret.overflow
                   THEN [kind |-> "panic", val |-> <<>>]
                   ELSE [kind |-> "shift", val |-> call'.ret.shift]>>
    /\ UNCHANGED <<overflow_checks, self, blob>>

NextShift ==
    /\ call.fn = "none"
    /\ \E pxs \in [0 .. 4 -> WindowValues] : CalculateShift(pxs)

SpecShift == InitShift /\ [][NextShift]_vars

----------------------------------------------------------------------------
(* StreamCodec: decode on one blob.                                        *)

InitDecode ==
    /\ overflow_checks \in BOOLEAN
    /\ self = NoSelf
    /\ blob \in Blobs
    /\ stages = <<>>
    /\ call = None

Decode ==
    /\ call.fn = "none"
    /\ call' = [fn |-> "decode", ret |-> decode(overflow_checks, blob)]
    /\ UNCHANGED <<overflow_checks, self, blob, stages>>

NextDecode == Decode

SpecDecode == InitDecode /\ [][NextDecode]_vars

----------------------------------------------------------------------------
(* StreamCodec: decode on two blobs of whole blocks and on the two joined. *)

\* The blobs of whole blocks that are joined: all zero bytes, the low byte of
\* the index, or one of two Vectors in every chunk.
BlockBlobs ==
    {b \in Blobs : /\ b.len % BlockSize = 0
                   /\ \/ b.kind = "const" /\ b.a = 0
                      \/ b.kind = "lo"
                      \/ b.kind = "vec" /\ b.a \in {2, 3}}

InitJoin ==
    /\ overflow_checks \in BOOLEAN
    /\ self = NoSelf
    /\ blob \in {Concat(b1, b2) : b1 \in BlockBlobs, b2 \in BlockBlobs}
    /\ stages = <<>>
    /\ call = None

\* decode called on the first blob, on the second and on the two joined.
DecodeJoined ==
    /\ call' = [fn |-> "decode_joined",
                ret |-> [k \in {"first", "second", "whole"} |->
                           decode(overflow_checks,
                                  CASE k = "first" -> blob.a[1]
                                    [] k = "second" -> blob.a[2]
                                    [] k = "whole" -> blob)]]
    /\ UNCHANGED <<overflow_checks, self, blob, stages>>

NextJoin == call.fn = "none" /\ DecodeJoined

SpecJoin == InitJoin /\ [][NextJoin]_vars

----------------------------------------------------------------------------
(* Bayer swizzle (bin/wytros.rs).  A buffer of samples is given, like a    *)
(* blob, by its length, rows * cols - short, and the rule its samples      *)
(* follow.                                                                 *)

\* bayer.len(), for a buffer described as rows * cols samples less short.
buffer_len(bayer) == bayer.rows * bayer.cols - bayer.short

\* bayer[i]: the index itself, or the index counted from the end.
SampleAt(bayer, i) ==
    CASE bayer.kind = "index" -> i
      [] bayer.kind = "back" -> buffer_len(bayer) - 1 - i

\* (subx, suby) of channel subpx of the 3-channel output: r, g1, b.
sub_rgb(subpx) ==
    CASE subpx = 0 -> <<0, 1>>
      [] subpx = 1 -> <<0, 0>>
      [] subpx = 2 -> <<1, 0>>

\* (subx, suby) of the only channel of the second-green output.
sub_g2(subpx) == <<1, 1>>

\* (subx, suby) of channel subpx of the 4-channel output: r, g1, b, g2.
sub_rg1bg2(subpx) ==
    CASE subpx = 0 -> <<0, 1>>
      [] subpx = 1 -> <<0, 0>>
      [] subpx = 2 -> <<1, 0>>
      [] subpx = 3 -> <<1, 1>>

\* Whether y * 2, x * 2, the product or the sum of bayer_index leaves u32:
\* it aborts a build with overflow checks.
bayer_index_overflows(x, y, sub, bayer_pitch) ==
    LET bayer_row == Or32(MulU32(y, 2), sub[2])
        bayer_column == Or32(MulU32(x, 2), sub[1])
    IN  \/ mul_overflows(y, 2)
        \/ mul_overflows(x, 2)
        \/ mul_overflows(bayer_row, bayer_pitch)
        \/ OutOfU32(MulU32(bayer_row, bayer_pitch) + bayer_column)

\* bayer_row * bayer_pitch + bayer_column, in u32 as a build without
\* overflow checks computes it.
bayer_index(x, y, sub, bayer_pitch) ==
    LET bayer_row == Or32(MulU32(y, 2), sub[2])
        bayer_column == Or32(MulU32(x, 2), sub[1])
    IN  WrapU32(MulU32(bayer_row, bayer_pitch) + bayer_column)

\* out_w * out_channels in u32.
rgb_pitch_of(width, out_channels) == MulU32(width \div 2, out_channels)

\* x of output element i: (i as u32 % rgb_pitch) / out_channels.
x_of(i, width, out_channels) ==
    (WrapU32(i) % rgb_pitch_of(width, out_channels)) \div out_channels

\* y of output element i: i as u32 / rgb_pitch.
y_of(i, width, out_channels) ==
    WrapU32(i) \div rgb_pitch_of(width, out_channels)

\* Whether the index of output element i overflows.
source_index_overflows(i, width, out_channels, sub) ==
    bayer_index_overflows(x_of(i, width, out_channels),
                          y_of(i, width, out_channels), sub, width)

\* The source index of output element i, for out_channels channels and an
\* rgb_pitch that is not 0.
source_index(i, width, out_channels, sub) ==
    bayer_index(x_of(i, width, out_channels),
                y_of(i, width, out_channels), sub, width)

\* The body shared by the three swizzlers, subs holding (subx, suby) for
\* subpx = 0 .. out_channels - 1, as a build without overflow checks
\* computes it: the output buffer, or a panic when the mosaic pattern is not
\* Gbrg, when rgb_pitch is 0 for an output that is not empty, or when a
\* source index is outside bayer.  overflow tells whether a u32 product or
\* sum overflowed on the way, where a build with overflow checks panics.
OutputOf(bayer, width, height, pattern, out_channels, subs) ==
    LET out_pixels == MulU32(height \div 2, width \div 2) * out_channels
        zero_pitch == out_pixels > 0 /\ rgb_pitch_of(width, out_channels) = 0
        idx == [i \in 0 .. out_pixels - 1 |->
                   source_index(i, width, out_channels, subs[(i % out_channels) + 1])]
        overflow ==
            \/ mul_overflows(height \div 2, width \div 2)
            \/ mul_overflows(width \div 2, out_channels)
            \/ /\ ~zero_pitch
               /\ \E i \in 0 .. out_pixels - 1 :
                      source_index_overflows(i, width, out_channels,
                                             subs[(i % out_channels) + 1])
    IN  IF pattern # "Gbrg" \/ zero_pitch
        THEN [kind |-> "panic", out |-> <<>>, overflow |-> overflow]
        ELSE IF \E i \in 0 .. out_pixels - 1 : idx[i] >= buffer_len(bayer)
        THEN [kind |-> "panic", out |-> <<>>, overflow |-> overflow]
        ELSE [kind |-> "Ok",
              out |-> [i \in 0 .. out_pixels - 1 |-> SampleAt(bayer, idx[i])],
              overflow |-> overflow]

bayer_to_rgb(bayer, width, height, mosaic_pattern) ==
    OutputOf(bayer, width, height, mosaic_pattern, 3,
             <<sub_rgb(0), sub_rgb(1), sub_rgb(2)>>)

bayer_to_g2(bayer, width, height, mosaic_pattern) ==
    OutputOf(bayer, width, height, mosaic_pattern, 1, <<sub_g2(0)>>)

bayer_to_rg1bg2(bayer, width, height, mosaic_pattern) ==
    OutputOf(bayer, width, height, mosaic_pattern, 4,
             <<sub_rg1bg2(0), sub_rg1bg2(1), sub_rg1bg2(2), sub_rg1bg2(3)>>)

\* The largest width and height of the buffers swizzled.
MaxWidth == 6

MaxHeight == 6

\* A width and height whose halves have the product 2^32.
WideSide == 131072

\* Buffers of width * height samples, and of one sample less, with the
\* width and height they are swizzled with.
BayerBuffers ==
    {b \in {[rows |-> h, cols |-> w, short |-> short, kind |-> k,
             width |-> w, height |-> h] :
                k \in {"index", "back"}, w \in 0 .. MaxWidth,
                h \in 0 .. MaxHeight, short \in {0, 1}} :
        b.rows * b.cols >= b.short} \cup
    {[rows |-> WideSide, cols |-> WideSide, short |-> 0, kind |-> k,
      width |-> WideSide, height |-> WideSide] : k \in {"index", "back"}}

Patterns == {"Gbrg", "Rggb"}

InitBayer ==
    /\ overflow_checks \in BOOLEAN
    /\ self = NoSelf
    /\ blob \in BayerBuffers
    /\ stages = <<>>
    /\ call = None

\* call.ret is what a build without overflow checks computes; the call
\* panics in a build with them when something overflowed.
BayerToRgb(pattern) ==
    /\ call' = [fn |-> "bayer_to_rgb", pattern |-> pattern,
                ret |-> bayer_to_rgb(blob, blob.width, blob.height, pattern)]
    /\ stages' = <<IF overflow_checks /\ call'.ret.overflow
                   THEN [kind |-> "panic", val |-> <<>>]
                   ELSE [kind |-> call'.ret.kind, val |-> call'.ret.out]>>
    /\ UNCHANGED <<overflow_checks, self, blob>>

BayerToG2(pattern) ==
    /\ call' = [fn |-> "bayer_to_g2", pattern |-> pattern,
                ret |-> bayer_to_g2(blob, blob.width, blob.height, pattern)]
    /\ stages' = <<IF overflow_checks /\ call'.ret.overflow
                   THEN [kind |-> "panic", val |-> <<>>]
                   ELSE [kind |-> call'.ret.kind, val |-> call'.ret.out]>>
    /\ UNCHANGED <<overflow_checks, self, blob>>

BayerToRg1bg2(pattern) ==
    /\ call' = [fn |-> "bayer_to_rg1bg2", pattern |-> pattern,
                ret |-> bayer_to_rg1bg2(blob, blob.width, blob.height, pattern)]
    /\ stages' = <<IF overflow_checks /\ call'.ret.overflow
                   THEN [kind |-> "panic", val |-> <<>>]
                   ELSE [kind |-> call'.ret.kind, val |-> call'.ret.out]>>
    /\ UNCHANGED <<overflow_checks, self, blob>>

NextBayer ==
    \/ call.fn = "none" /\ \E pattern \in Patterns : BayerToRgb(pattern)
    \/ call.fn = "none" /\ \E pattern \in Patterns : BayerToG2(pattern)
    \/ call.fn = "none" /\ \E pattern \in Patterns : BayerToRg1bg2(pattern)

SpecBayer == InitBayer /\ [][NextBayer]_vars

----------------------------------------------------------------------------
(* Properties of the chunk codec.                                          *)

\* C1: for every 16-byte chunk c, encode_chunk(decode_chunk(c)) returns
\* exactly the 16 bytes of c.  In a run that starts from a chunk, stage 2 is
\* decode_chunk(c) and stage 3 is encode_chunk of it.
C1_ReencodeReturnsChunk ==
    (Len(stages) >= 3 /\ stages[1].kind = "chunk")
        => (stages[3].kind = "chunk" /\ stages[3].val = stages[1].val)

\* C2: for every 14-pixel input p of values below 2^14, b = encode_chunk(p)
\* is a fixed point of decode-then-encode.  In a run that starts from pixels,
\* stage 2 is b and stage 4 is encode_chunk(decode_chunk(b)).
C2_EncoderOutputFixedPoint ==
    (Len(stages) >= 4 /\ stages[1].kind = "pixels"
        /\ \A i \in 0 .. PixelsPerChunk - 1 : stages[1].val[i] < Pow2(14))
        => (stages[4].kind = "chunk" /\ stages[4].val = stages[2].val)

----------------------------------------------------------------------------
(* Properties of decode.                                                   *)

\* C3: decode returns Ok if and only if the length of the blob is a multiple
\* of 0x4000: for such a length it completes with pixels whatever the bytes,
\* and for every other length it returns the bad-size error with the length
\* and no pixels.
C3_DecodeOkIffWholeBlocks ==
    call.fn = "decode"
        => IF blob.len % BlockSize = 0
           THEN call.ret.kind = "Ok"
           ELSE /\ call.ret.kind = "Err"
                /\ call.ret.len = blob.len
                /\ call.ret.out = <<>>

\* C4: a successful decode of a blob of whole blocks returns (len / 16) * 14
\* pixels, the 14 pixels of logical chunk k for k = 0 .. len / 16 - 1 in
\* increasing k.
C4_DecodeReturnsEveryChunk ==
    (call.fn = "decode" /\ call.ret.kind = "Ok")
        => /\ DOMAIN call.ret.out = 0 .. (blob.len \div 16) * PixelsPerChunk - 1
           /\ \A k \in 0 .. blob.len \div 16 - 1 :
                  \A m \in 0 .. PixelsPerChunk - 1 :
                      call.ret.out[k * PixelsPerChunk + m]
                          = decode_chunk(block_get_chunk(blob, k))[m]

----------------------------------------------------------------------------
(* Properties of calculate_shift.                                          *)

\* The largest |pxs[q + 2] - pxs[q]| of a window, and its largest new pixel.
WindowMaxDiff(pxs) == MaxOf({Abs(pxs[q + 2] - pxs[q]) : q \in 0 .. 2})

WindowMaxPx(pxs) == MaxOf({pxs[q] : q \in 2 .. 4})

\* shift_d: the table 0 -> 0, 1 -> 1, 2 -> 2, else 4 applied to the least
\* power of two that is at least maxdiff + 1, divided by 256.
ShiftD(pxs) ==
    LET pow == CHOOSE p \in {Pow2(e) : e \in 0 .. 16} :
                   /\ p >= WindowMaxDiff(pxs) + 1
                   /\ \A e \in 0 .. 16 : Pow2(e) >= WindowMaxDiff(pxs) + 1 => p <= Pow2(e)
        t == pow \div 256
    IN  IF t \in {0, 1, 2} THEN t ELSE 4

\* shift_p as the smallest s in {0, 1, 2} with (0xFF << s) > maxpx, else 4.
ShiftPSmallest(pxs) ==
    LET ok == {s \in {0, 1, 2} : 255 * Pow2(s) > WindowMaxPx(pxs)}
    IN  IF ok = {} THEN 4 ELSE CHOOSE s \in ok : \A t \in ok : s <= t

\* shift_p as 2 when (0xFF << 2) > maxpx, else 4.
ShiftPFirstOfTwoOneZero(pxs) == IF 255 * 4 > WindowMaxPx(pxs) THEN 2 ELSE 4

\* C5, as stated, for pixels below 2^14, the values the encoder is defined
\* on: calculate_shift returns min(shift_d, shift_p) with shift_p
\* the smallest s in {0, 1, 2} such that (0xFF << s) > max(pxs[2..5]), or 4.
C5_ShiftIsMinWithSmallest ==
    (call.fn = "calculate_shift" /\ \A q \in 0 .. 4 : call.pxs[q] < Pow2(14))
        => call.ret.shift = Min(ShiftD(call.pxs), ShiftPSmallest(call.pxs))

\* C5, amended: for pixels below 2^14, in either build, calculate_shift
\* returns min(shift_d, shift_p) with shift_p
\* equal to 2 when (0xFF << 2) > max(pxs[2..5]) and to 4 otherwise.
C5_ShiftIsMinWithFirstFit ==
    (call.fn = "calculate_shift" /\ \A q \in 0 .. 4 : call.pxs[q] < Pow2(14))
        => /\ stages[1].kind = "shift"
           /\ stages[1].val = Min(ShiftD(call.pxs),
                                  ShiftPFirstOfTwoOneZero(call.pxs))

\* C5: a window whose new pixels fit an 8-bit code at shift 0 while its
\* largest difference asks for shift 2, and the call returns 2.
C5_SmallPixelsLargeDiff ==
    /\ call.fn = "calculate_shift"
    /\ WindowMaxPx(call.pxs) < 255
    /\ ShiftD(call.pxs) = 2
    /\ call.ret.shift = 2

----------------------------------------------------------------------------
(* Properties of ReverseBits.                                              *)

\* Bit n of the 128-bit integer B whose least significant byte is b[0] and
\* whose most significant byte is b[15].
BitOfB(b, n) == (b[n \div 8] \div Pow2(n % 8)) % 2

\* (B >> lo) & (2^count - 1), summed bit by bit.
FieldOfB(b, lo, count) ==
    LET S[t \in 0 .. count] ==
            IF t = 0 THEN 0 ELSE S[t - 1] + BitOfB(b, lo + t - 1) * Pow2(t - 1)
    IN  S[count]

\* C6: after set(i, c, v) with c in 1..8, i + c <= 128 and v < 2^c, get(i, c)
\* returns v, and every bit outside [i, i + c) has the value it had before:
\* bit index n is bit 127 - n of B, and a get of one bit or of one byte on a
\* range disjoint from [i, i + c) returns what it returned before.
C6_SetThenGetAndFrame ==
    (/\ call.fn = "set"
     /\ call.count \in 1 .. 8
     /\ call.bit_index + call.count <= GroupBits)
        => /\ get(self, call.bit_index, call.count) = call.value
           /\ \A n \in 0 .. GroupBits - 1 :
                  (n < call.bit_index \/ n >= call.bit_index + call.count)
                      => /\ BitOfB(self, GroupBits - 1 - n)
                              = BitOfB(call.before, GroupBits - 1 - n)
                         /\ get(self, n, 1) = get(call.before, n, 1)
           /\ \A n \in 0 .. GroupBits - 8 :
                  (n + 8 <= call.bit_index \/ n >= call.bit_index + call.count)
                      => get(self, n, 8) = get(call.before, n, 8)

\* C6: a set of 8 bits that spans bytes 15 and 14 and changes the group.
C6_SetAcrossTopBytes ==
    /\ call.fn = "set"
    /\ call.bit_index = 5
    /\ call.count = 8
    /\ call.value = 170
    /\ self # call.before
    /\ self[15] # call.before[15]
    /\ self[14] # call.before[14]

\* C7: get(i, c) with c in 1..8 and i + c <= 128 equals
\* (B >> (128 - i - c)) & (2^c - 1), reads across a byte boundary and reads
\* that touch byte 15 included.
C7_GetIsFieldOfB ==
    (/\ call.fn = "get"
     /\ call.count \in 1 .. 8
     /\ call.bit_index + call.count <= GroupBits)
        => call.ret = FieldOfB(self, GroupBits - call.bit_index - call.count,
                               call.count)

\* C7: a get of 8 bits that takes the low half of byte 15 and the high half
\* of byte 14 of the group of the crate's revbits test.
C7_GetAcrossTopBytes ==
    /\ call.fn = "get"
    /\ self = Vectors[1]
    /\ call.bit_index = 4
    /\ call.count = 8
    /\ call.ret = 191

----------------------------------------------------------------------------
(* Properties of the block layout.                                         *)

\* C8: for a blob of n >= 1 blocks and a block b < n, chunk k of block b
\* (0x400 * b <= k <= 0x400 * b + 0x3FF) is 16 bytes of block b rotated to
\* start at 0x1FF8: its byte r is byte (0x1FF8 + 16 * (k - 0x400 * b) + r)
\* mod 0x4000 of block b, so chunk 0x200 is block[0x3FF8 ..] then block[.. 8].
C8_ChunksAreRotatedBlock ==
    (call.fn = "block_get_chunk"
        /\ call.idx < (blob.len \div BlockSize) * (BlockSize \div 16))
        => LET b == call.idx \div (BlockSize \div 16)
               m == (call.idx % (BlockSize \div 16)) * 16
           IN  /\ DOMAIN call.ret = 0 .. 15
               /\ \A r \in 0 .. 15 :
                      call.ret[r]
                          = ByteAt(blob, b * BlockSize + ((8184 + m + r) % BlockSize))

\* C8: the split chunk of the second block of a blob, whose bytes come from
\* the end and then the start of that block.
C8_SplitChunkOfSecondBlock ==
    /\ call.fn = "block_get_chunk"
    /\ call.idx = 1024 + 512
    /\ blob.kind = "hi"
    /\ DOMAIN call.ret = 0 .. 15
    /\ call.ret[7] = 127
    /\ call.ret[8] = 64

\* Whether the 16-byte slots at offsets o1 and o2 of a block share no byte, a
\* slot that runs past the end wrapping to the start: going round the block
\* from o1, o2 comes 16 bytes or more later and ends before o1 comes again.
SlotsDisjoint(o1, o2) ==
    LET d == (o2 - o1) % BlockSize
    IN  d >= 16 /\ d <= BlockSize - 16

\* C9: for k in [0, 0x400), chunk_to_offset(k) lies in [0, 0x4000), no other
\* chunk has the same offset or a slot that overlaps, and the offset is
\* 0x3FF8 for k = 0x200 only.
C9_OffsetsInBlockAndDisjoint ==
    call.fn = "chunk_to_offset"
        => /\ call.ret \in 0 .. BlockSize - 1
           /\ (call.ret = 16376) <=> (call.idx = 512)
           /\ \A k \in 0 .. BlockSize \div 16 - 1 :
                  k # call.idx
                      => /\ chunk_to_offset(k) # call.ret
                         /\ SlotsDisjoint(call.ret, chunk_to_offset(k))

\* C9: the offset of chunk 0x200, the slot that wraps.
C9_OffsetOfSplitChunk ==
    /\ call.fn = "chunk_to_offset"
    /\ call.idx = 512
    /\ call.ret = 16376

----------------------------------------------------------------------------
(* Range of the decoded values.                                            *)

\* C10: each of the 14 values produced by decode_chunk is less than 2^14.
\* A stage of pixels that follows a stage of bytes is a decode_chunk result.
C10_DecodedBelowTwoPow14 ==
    \A n \in 2 .. Len(stages) :
        (stages[n].kind = "pixels" /\ stages[n - 1].kind = "chunk")
            => /\ DOMAIN stages[n].val = 0 .. PixelsPerChunk - 1
               /\ \A m \in 0 .. PixelsPerChunk - 1 : stages[n].val[m] < Pow2(14)

\* C10: the longest chain of delta steps at the largest shift from the
\* largest seed: six steps of (0xFF - 0x80) << 2 on top of 0xFFF.
C10_LongestDeltaChain ==
    /\ Len(stages) >= 2
    /\ stages[1].kind = "chunk"
    /\ stages[2].kind = "pixels"
    /\ stages[2].val[0] = 4095
    /\ stages[2].val[12] = 4095 + 6 * 508

----------------------------------------------------------------------------
(* Blocks under decode.                                                    *)

\* The pixels of result r1 followed by the pixels of result r2.
PixelsThen(r1, r2) ==
    LET n1 == Cardinality(DOMAIN r1.out)
        n2 == Cardinality(DOMAIN r2.out)
    IN  [x \in 0 .. n1 + n2 - 1 |-> IF x < n1 THEN r1.out[x] ELSE r2.out[x - n1]]

\* C11: for two blobs b1 and b2 of whole blocks, a successful decode of
\* b1 ++ b2 equals decode(b1) followed by decode(b2).
C11_DecodeOfJoinedIsJoinedDecodes ==
    (call.fn = "decode_joined" /\ call.ret.whole.kind = "Ok")
        => /\ call.ret.first.kind = "Ok"
           /\ call.ret.second.kind = "Ok"
           /\ call.ret.whole.out = PixelsThen(call.ret.first, call.ret.second)

----------------------------------------------------------------------------
(* Properties of the Bayer swizzle.                                        *)

\* The sample of super-pixel (x, y) at column offset sx and row offset sy of
\* a buffer of width w.
SuperPixelSample(x, y, sx, sy) ==
    SampleAt(blob, (2 * y + sy) * blob.width + 2 * x + sx)

\* The channels of a swizzler, as (sx, sy) in output order.
ChannelsOf(fn) ==
    CASE fn = "bayer_to_rgb" -> <<<<0, 1>>, <<0, 0>>, <<1, 0>>>>
      [] fn = "bayer_to_g2" -> <<<<1, 1>>>>
      [] fn = "bayer_to_rg1bg2" -> <<<<0, 1>>, <<0, 0>>, <<1, 0>>, <<1, 1>>>>

\* C12: for a GBRG buffer of even width w and even height h with w * h
\* samples and every super-pixel (x, y), x < w/2, y < h/2: the 3-channel
\* output holds bayer[(2y+1)w + 2x], bayer[2y*w + 2x], bayer[2y*w + 2x+1] as
\* R, G1, B at (y(w/2) + x)*3 + c, the G2 output holds bayer[(2y+1)w + 2x+1]
\* at y(w/2) + x, the 4-channel output holds the four as R, G1, B, G2, and
\* every source index is inside the buffer.  The call returns, and its
\* output is not empty when there is a super-pixel.
C12_SwizzleTakesSuperPixelSamples ==
    (/\ call.fn \in {"bayer_to_rgb", "bayer_to_g2", "bayer_to_rg1bg2"}
     /\ call.pattern = "Gbrg"
     /\ blob.width % 2 = 0 /\ blob.height % 2 = 0
     /\ blob.rows = blob.height /\ blob.cols = blob.width /\ blob.short = 0)
        => LET ch == ChannelsOf(call.fn)
               n == Len(ch)
               ow == blob.width \div 2
               oh == blob.height \div 2
           IN  /\ stages[1].kind = "Ok"
               /\ (ow > 0 /\ oh > 0) => DOMAIN stages[1].val # {}
               /\ DOMAIN stages[1].val = 0 .. ow * oh * n - 1
               /\ \A x \in 0 .. ow - 1 : \A y \in 0 .. oh - 1 : \A c \in 1 .. n :
                      /\ (2 * y + ch[c][2]) * blob.width + 2 * x + ch[c][1]
                             < buffer_len(blob)
                      /\ stages[1].val[(y * ow + x) * n + c - 1]
                             = SuperPixelSample(x, y, ch[c][1], ch[c][2])

----------------------------------------------------------------------------
(* Properties of the encoder's passes.  After EncodeChunk the last stage   *)
(* but one holds the 14 pixels encoded and call.run.steps[k] the prev, j   *)
(* and shift of the pass for pixel k + 1, k = 1 .. 12.                     *)

\* Whether the last action encoded 14 pixels that are all below 2^12.
EncodedTwelveBitPixels ==
    /\ call.fn = "encode_chunk"
    /\ \A i \in 0 .. PixelsPerChunk - 1 : stages[Len(stages) - 1].val[i] < Pow2(12)

\* Whether pass k ran: in a build with overflow checks the passes stop at
\* the first overflow.
PassRan(k) == ~overflow_checks \/ ~call.run.steps[k].aborted

\* Whether pass k coded its pixel in replacement mode.
ReplacementPass(k) ==
    LET st == call.run.steps[k]
    IN  st.prev < 128 * Pow2(st.shift) \/ st.shift = 4

\* C13: for 14 pixels below 2^12 and every px_idx in 2..13, the prev that
\* encode_chunk uses for that pixel equals out[px_idx - 2] of decode_chunk
\* on the chunk encode_chunk produced.
C13_EncoderPrevIsDecoderPrev ==
    (EncodedTwelveBitPixels /\ Last.kind = "chunk")
        => \A px_idx \in 2 .. PixelsPerChunk - 1 :
               call.run.steps[px_idx - 1].prev = decode_chunk(Last.val)[px_idx - 2]

\* C14: for 14 pixels below 2^12, every code j that encode_chunk computes in
\* replacement mode (prev < magnitude or shift = 4) is at most 255.
C14_ReplacementCodeFitsByte ==
    EncodedTwelveBitPixels
        => \A k \in 1 .. PixelsPerChunk - 2 :
               (PassRan(k) /\ ReplacementPass(k)) => call.run.steps[k].j <= 255

\* C15: in every evaluation of the delta branch of decode_j, from
\* decode_chunk on any chunk or from encode_chunk on 14 pixels below 2^12,
\* prev - magnitude + (j << shift) does not wrap: magnitude <= prev, and the
\* sum is below 2^16.
C15_DeltaSumDoesNotWrap ==
    /\ call.fn = "decode_chunk" => ~call.run.overflow
    /\ EncodedTwelveBitPixels
           => \A k \in 1 .. PixelsPerChunk - 2 :
                  LET st == call.run.steps[k]
                  IN  (PassRan(k) /\ st.j # 0 /\ ~ReplacementPass(k))
                          => /\ 128 * Pow2(st.shift) <= st.prev
                             /\ (st.prev - 128 * Pow2(st.shift))
                                    + ((st.j * Pow2(st.shift)) % Pow2(16)) < Pow2(16)

----------------------------------------------------------------------------
====
